---- MODULE Spec2Model ----
(***************************************************************************)
(* Model of CartesianControllerBase<HardwareInterface>                     *)
(* (cartesian_controller_base.hpp): init, starting, stopping, update,      *)
(* writeJointControlCmds, computeJointControlCmds, displayInBaseLink.      *)
(*                                                                         *)
(* The members m_spatial_controller (SpatialPIDController) and             *)
(* m_forward_dynamics_solver (ForwardDynamicsSolver) are classes of the    *)
(* package whose code is not part of the file; they are modelled from the  *)
(* written specification (sections 4.1 and 4.2).  The controller life      *)
(* cycle (Uninitialized, Initialized, Running, Stopped) is the one of      *)
(* section 4.4.  The KDL calls (Tree::addChain, TreeFkSolverPos_recursive, *)
(* Frame * Wrench) are modelled by what the library does.                  *)
(*                                                                         *)
(* Numbers are integers.  A joint position counts quarter turns, so that   *)
(* every rotation matrix has integer entries.                              *)
(***************************************************************************)
EXTENDS Integers, Sequences, FiniteSets, TLC

VARIABLES
    state,                    \* life cycle of the controller (section 4.4)
    mode,                     \* the HardwareInterface template argument
    m_robot_base_link,        \* std::string, "" until loaded
    m_end_effector_link,      \* std::string, "" until loaded
    m_joint_names,            \* std::vector<std::string>
    m_joint_handles,          \* std::vector<JointHandle>: the joint each refers to
    fd,                       \* m_forward_dynamics_solver
    fk,                       \* m_forward_kinematics_solver: the tree it holds, << >> if none
    pid,                      \* m_spatial_controller
    m_cartesian_input,        \* ctrl::Vector6D
    m_simulated_joint_motion, \* JointTrajectoryPoint: positions, velocities
    hw,                       \* the hardware: real state and command of every joint
    last                      \* the last call made on the controller, and its outcome

vars == << state, mode, m_robot_base_link, m_end_effector_link, m_joint_names,
           m_joint_handles, fd, fk, pid, m_cartesian_input,
           m_simulated_joint_motion, hw, last >>

Null == "null"

----------------------------------------------------------------------------
(* Bounds of the model *)

\* largest absolute value of a simulated joint position the model follows
MaxPos == 2
\* the anti-windup bound the integral of every axis is clamped to
IMax == 1

----------------------------------------------------------------------------
(* Vectors, rotations and frames as KDL computes them *)

Zero3 == << 0, 0, 0 >>
Zero6 == << 0, 0, 0, 0, 0, 0 >>
Identity3 == << << 1, 0, 0 >>, << 0, 1, 0 >>, << 0, 0, 1 >> >>

\* KDL::Vector operator+
VecAdd(a, b) == [i \in 1..3 |-> a[i] + b[i]]

\* KDL::Vector operator*(Vector, Vector): the cross product
VecCross(a, b) ==
    << a[2] * b[3] - a[3] * b[2],
       a[3] * b[1] - a[1] * b[3],
       a[1] * b[2] - a[2] * b[1] >>

\* KDL::Rotation operator*(Vector)
RotVec(M, v) == [i \in 1..3 |-> M[i][1] * v[1] + M[i][2] * v[2] + M[i][3] * v[3]]

\* KDL::Rotation operator*(Rotation)
RotRot(A, B) ==
    [i \in 1..3 |-> [j \in 1..3 |->
        A[i][1] * B[1][j] + A[i][2] * B[2][j] + A[i][3] * B[3][j]]]

\* KDL::Frame(): the identity, which is what a default constructed frame holds
FrameIdentity == [M |-> Identity3, p |-> Zero3]

\* KDL::Frame operator*(Frame, Frame)
FrameFrame(A, B) == [M |-> RotRot(A.M, B.M), p |-> VecAdd(RotVec(A.M, B.p), A.p)]

\* KDL::Rotation::RotZ, for an angle of q quarter turns
RotZ(q) ==
    CASE q % 4 = 0 -> Identity3
      [] q % 4 = 1 -> << << 0, -1, 0 >>, << 1, 0, 0 >>, << 0, 0, 1 >> >>
      [] q % 4 = 2 -> << << -1, 0, 0 >>, << 0, -1, 0 >>, << 0, 0, 1 >> >>
      [] q % 4 = 3 -> << << 0, 1, 0 >>, << -1, 0, 0 >>, << 0, 0, 1 >> >>

\* KDL::Segment::pose(q): the joint's motion followed by the frame to the tip
SegmentPose(seg, q) ==
    FrameFrame([M |-> IF seg.joint = "RotZ" THEN RotZ(q) ELSE Identity3, p |-> Zero3],
               seg.f_tip)

\* KDL::Wrench Frame::operator*(const Wrench&):
\*   tmp.force = M*arg.force; tmp.torque = M*arg.torque + p*tmp.force
FrameWrench(F, w) ==
    LET force == RotVec(F.M, w.force)
    IN  [force |-> force, torque |-> VecAdd(RotVec(F.M, w.torque), VecCross(F.p, force))]

\* KDL::Wrench::operator()(i): force for i < 3, torque after (i counts from 1 here)
WrenchAt(w, i) == IF i <= 3 THEN w.force[i] ELSE w.torque[i - 3]

RECURSIVE NrOfJoints(_)
\* KDL::Chain::getNrOfJoints: the segments whose joint is not Joint::None
NrOfJoints(chain) ==
    IF chain = << >> THEN 0
    ELSE (IF Head(chain).joint = "None" THEN 0 ELSE 1) + NrOfJoints(Tail(chain))

----------------------------------------------------------------------------
(* The structural descriptions on the parameter server, and what urdf and   *)
(* kdl_parser make of them                                                  *)

Translation(x, y, z) == [M |-> Identity3, p |-> << x, y, z >>]

\* a serial arm: base_link -(RotZ)- link1 -(RotZ)- link2 -(fixed)- tool0
RobotA ==
    [root |-> "base_link",
     links |-> << [name |-> "link1", parent |-> "base_link", joint |-> "RotZ",
                   f_tip |-> Translation(1, 0, 0)],
                  [name |-> "link2", parent |-> "link1", joint |-> "RotZ",
                   f_tip |-> Translation(1, 0, 0)],
                  [name |-> "tool0", parent |-> "link2", joint |-> "None",
                   f_tip |-> Translation(0, 0, 1)] >>]

\* a urdf::Model that holds nothing
NoModel == [root |-> Null, links |-> << >>]

\* urdf::Model::initString: the model of the text; nothing when it does not parse
\* (a missing /robot_description leaves the string empty, which does not parse)
urdf_initString(description) ==
    CASE description = "RobotA" -> RobotA
      [] OTHER -> NoModel

\* KDL::Tree(root_name): a tree that holds its root element only
Tree_new(root_name) ==
    << [name |-> root_name, parent |-> Null, joint |-> "None", f_tip |-> FrameIdentity] >>

Tree_names(tree) == {tree[i].name : i \in DOMAIN tree}

\* KDL::Tree::getNrOfJoints
Tree_getNrOfJoints(tree) == NrOfJoints(tree)

\* KDL::Tree::addSegment: false when the hook is no segment of the tree, or when
\* the tree already holds a segment of that name
Tree_addSegment(tree, seg, hook_name) ==
    IF hook_name \notin Tree_names(tree) \/ seg.name \in Tree_names(tree)
    THEN [ok |-> FALSE, tree |-> tree]
    ELSE [ok |-> TRUE,
          tree |-> Append(tree, [name |-> seg.name, parent |-> hook_name,
                                 joint |-> seg.joint, f_tip |-> seg.f_tip])]

RECURSIVE Tree_addChain(_, _, _)
\* KDL::Tree::addChain: adds the segments one below the other, starting at the
\* hook, and stops at the first segment that cannot be added
Tree_addChain(tree, chain, hook_name) ==
    IF chain = << >> THEN [ok |-> TRUE, tree |-> tree]
    ELSE LET r == Tree_addSegment(tree, Head(chain), hook_name)
         IN  IF r.ok THEN Tree_addChain(r.tree, Tail(chain), Head(chain).name)
             ELSE [ok |-> FALSE, tree |-> tree]

RECURSIVE AddLinks(_, _)
AddLinks(tree, links) ==
    IF links = << >> THEN tree
    ELSE AddLinks(Tree_addSegment(tree, Head(links), Head(links).parent).tree, Tail(links))

\* kdl_parser::treeFromUrdfModel: fails when the model has no root link
treeFromUrdfModel(robot_model) ==
    IF robot_model.root = Null THEN [ok |-> FALSE, tree |-> Tree_new("root")]
    ELSE [ok |-> TRUE,
          tree |-> AddLinks(Tree_new(robot_model.root), robot_model.links)]

Tree_index(tree, name) == CHOOSE i \in DOMAIN tree : tree[i].name = name

\* KDL::Tree::getChain(base, tip), for a base that lies on the way from the tip
\* to the root (the only bases the parameter sets below offer): fails when one
\* of the two names is no segment of the tree
Tree_getChain(tree, chain_root, chain_tip) ==
    IF chain_root \notin Tree_names(tree) \/ chain_tip \notin Tree_names(tree)
    THEN [ok |-> FALSE, chain |-> << >>]
    ELSE LET b == Tree_index(tree, chain_root)
             t == Tree_index(tree, chain_tip)
         IN  [ok |-> TRUE,
              chain |-> [i \in 1..(t - b) |->
                 [name |-> tree[b + i].name, joint |-> tree[b + i].joint,
                  f_tip |-> tree[b + i].f_tip]]]

\* the number q_nr of a tree element: the joints added before it
Tree_qnr(tree, i) == NrOfJoints(SubSeq(tree, 1, i - 1))

RECURSIVE recursiveFk(_, _, _)
\* KDL::TreeFkSolverPos_recursive::recursiveFk
recursiveFk(tree, q_in, i) ==
    LET elem == tree[i]
        q == IF elem.joint = "None" THEN 0 ELSE q_in[Tree_qnr(tree, i) + 1]
        currentFrame == SegmentPose(elem, q)
    IN  IF i = 1 THEN currentFrame
        ELSE FrameFrame(recursiveFk(tree, q_in, Tree_index(tree, elem.parent)),
                        currentFrame)

\* KDL::TreeFkSolverPos_recursive::JntToCart(q_in, p_out, segmentName): p_out is
\* written only when the call returns 0
JntToCart(tree, q_in, p_out, segmentName) ==
    IF Len(q_in) # Tree_getNrOfJoints(tree) THEN [ret |-> -1, p_out |-> p_out]
    ELSE IF segmentName \notin Tree_names(tree) THEN [ret |-> -2, p_out |-> p_out]
    ELSE [ret |-> 0, p_out |-> recursiveFk(tree, q_in, Tree_index(tree, segmentName))]

HwJoints == {"j1", "j2"}

\* hardware_interface::ResourceManager::getHandle throws for a name it does not know
RECURSIVE KnownPrefix(_)
KnownPrefix(names) ==
    IF names = << >> \/ Head(names) \notin HwJoints THEN << >>
    ELSE << Head(names) >> \o KnownPrefix(Tail(names))

----------------------------------------------------------------------------
(* SpatialPIDController (section 4.1)                                       *)

\* the gains of every axis, as configured
Kp == 1
Ki == 1
Kd == 0

Clamp(x, lo, hi) == IF x < lo THEN lo ELSE IF x > hi THEN hi ELSE x

PidFresh == [initialized |-> FALSE, integral |-> Zero6, prev_error |-> Zero6]

\* SpatialPIDController::init: the accumulators start at zero
SpatialPIDController_init(p) ==
    [initialized |-> TRUE, integral |-> Zero6, prev_error |-> Zero6]

\* SpatialPIDController::operator()(error, period).  A period <= 0 is rejected:
\* the accumulators stay, a zero command is substituted and the rejection is
\* reported.  Otherwise, on every axis, integral += error * period (clamped),
\* output = Kp*error + Ki*integral + Kd*(error - prevError)/period.
SpatialPIDController_call(p, error, period) ==
    IF period <= 0
    THEN [pid |-> p, out |-> Zero6, rejected |-> TRUE]
    ELSE LET integral == [i \in 1..6 |->
                 Clamp(p.integral[i] + error[i] * period, -IMax, IMax)]
         IN  [pid |-> [initialized |-> p.initialized, integral |-> integral,
                       prev_error |-> error],
              out |-> [i \in 1..6 |->
                 Kp * error[i] + Ki * integral[i]
                   + (Kd * (error[i] - p.prev_error[i])) \div period],
              rejected |-> FALSE]

----------------------------------------------------------------------------
(* ForwardDynamicsSolver (section 4.2)                                      *)

FdFresh == [initialized |-> FALSE, chain |-> << >>, positions |-> << >>,
            velocities |-> << >>]

\* ForwardDynamicsSolver::init(chain): a chain without joints is a fatal error;
\* otherwise the simulated state has one position and velocity per joint
ForwardDynamicsSolver_init(f, chain) ==
    IF NrOfJoints(chain) = 0 THEN [ok |-> FALSE, fd |-> f]
    ELSE [ok |-> TRUE,
          fd |-> [initialized |-> TRUE, chain |-> chain,
                  positions |-> [j \in 1..NrOfJoints(chain) |-> 0],
                  velocities |-> [j \in 1..NrOfJoints(chain) |-> 0]]]

\* ForwardDynamicsSolver::setStartState(joint_handles): copies the real position
\* and velocity behind every handle into the simulated state of its joint
ForwardDynamicsSolver_setStartState(f, joint_handles) ==
    [f EXCEPT
        !.positions = [j \in DOMAIN f.positions |->
            IF j <= Len(joint_handles) THEN hw[joint_handles[j]].position
            ELSE f.positions[j]],
        !.velocities = [j \in DOMAIN f.velocities |->
            IF j <= Len(joint_handles) THEN hw[joint_handles[j]].velocity
            ELSE f.velocities[j]]]

\* the row of the pseudo-inverse for joint j: the first joint follows the
\* angular velocity about z, every other joint the linear velocity along x
PseudoInverseAxis(j) == IF j = 1 THEN 6 ELSE 1

\* ForwardDynamicsSolver::getJointControlCmds(period, cartesianVelocity):
\* qdot = J+ * cartesianVelocity; position += qdot * period; velocity = qdot
ForwardDynamicsSolver_getJointControlCmds(f, period, input) ==
    LET qdot == [j \in DOMAIN f.positions |-> input[PseudoInverseAxis(j)]]
    IN  [f EXCEPT !.positions = [j \in DOMAIN f.positions |->
                                    f.positions[j] + qdot[j] * period],
                  !.velocities = qdot]

\* ForwardDynamicsSolver::getPositions
ForwardDynamicsSolver_getPositions(f) == f.positions

----------------------------------------------------------------------------
(* The parameter server, the hardware and the inputs of the calls           *)

\* what the parameter server can hold (Null: the key is not set)
Descriptions == {Null, "garbled", "RobotA"}
BaseLinks == {Null, "base_link"}
EndEffectorLinks == {Null, "base_link", "link1", "tool0", "flange"}
JointLists == {<< Null >>, << >>, << "j1" >>, << "j1", "j2" >>, << "j1", "j9" >>}
\* getParam("joints", ...) finds no such key
NoJoints == << Null >>

InitArgs ==
    [robot_description : Descriptions, robot_base_link : BaseLinks,
     end_effector_link : EndEffectorLinks, joints : JointLists]

\* the positions and velocities the real joints can have
RealStates ==
    {[j1 |-> [position |-> 0, velocity |-> 0], j2 |-> [position |-> 0, velocity |-> 0]],
     [j1 |-> [position |-> 1, velocity |-> -1], j2 |-> [position |-> 0, velocity |-> 0]],
     [j1 |-> [position |-> 1, velocity |-> -1], j2 |-> [position |-> -1, velocity |-> 1]]}

\* the Cartesian errors and the periods of a cycle
Errors == {Zero6, << 1, 0, 0, 0, 0, -1 >>}
Periods == {0, 1, 2}

\* the wrenches a sensor reports and the frames they are given in
Wrenches == {[force |-> << 1, 0, 0 >>, torque |-> << 0, 0, 0 >>],
             [force |-> << 0, 2, 0 >>, torque |-> << 0, 0, 1 >>]}
Frames == {"link1", "tool0"}

\* what a read past the end of a vector can yield
Garbage == {0, 99}

Modes == {"Position", "Velocity"}

\* the record of a call: what was called, with which arguments, and what came
\* of it; the fields a call does not use keep the values they have here
NoCall ==
    [op |-> "construct",
     init |-> [robot_description |-> Null, robot_base_link |-> Null,
               end_effector_link |-> Null, joints |-> << Null >>],
     ret |-> "",
     error |-> Zero6, period |-> 0, rejected |-> FALSE,
     written |-> << >>,
     wrench |-> [force |-> Zero3, torque |-> Zero3], from |-> "", out |-> Zero6]

----------------------------------------------------------------------------
(* CartesianControllerBase                                                  *)

\* init_body with the plausible slip that a missing 'joints' key is only
\* logged, like a missing link name, and the joint names are kept as they are
init_body_joints_logged(args) ==
    LET robot_description ==
            IF args.robot_description = Null THEN "" ELSE args.robot_description
        base == IF args.robot_base_link = Null THEN m_robot_base_link
                ELSE args.robot_base_link
        tip == IF args.end_effector_link = Null THEN m_end_effector_link
               ELSE args.end_effector_link
        robot_model == urdf_initString(robot_description)
        parsed == treeFromUrdfModel(robot_model)
        robot_tree == parsed.tree
        resolved == Tree_getChain(robot_tree, base, tip)
        robot_chain == resolved.chain
        loaded == [ret |-> "throw", base |-> base, tip |-> tip,
                   names |-> m_joint_names, handles |-> m_joint_handles,
                   fd |-> fd, fk |-> fk, pid |-> pid]
    IN  IF ~parsed.ok THEN loaded
        ELSE IF ~resolved.ok THEN loaded
        ELSE LET names == IF args.joints = NoJoints THEN m_joint_names
                          ELSE args.joints
                 handles == m_joint_handles \o KnownPrefix(names)
                 solver == ForwardDynamicsSolver_init(fd, robot_chain)
                 tmp == Tree_addChain(Tree_new("root"), robot_chain,
                                      robot_chain[1].name).tree
             IN  IF KnownPrefix(names) # names
                 THEN [loaded EXCEPT !.names = names, !.handles = handles]
                 ELSE IF ~solver.ok
                 THEN [loaded EXCEPT !.names = names, !.handles = handles]
                 ELSE [ret |-> "true", base |-> base, tip |-> tip, names |-> names,
                       handles |-> handles, fd |-> solver.fd, fk |-> tmp,
                       pid |-> SpatialPIDController_init(pid)]

\* the body of init(hw, nh) on the parameters args: the value it returns
\* ("true") or "throw", and the members as it leaves them
init_body(args) ==
    LET robot_description ==
            IF args.robot_description = Null THEN "" ELSE args.robot_description
        base == IF args.robot_base_link = Null THEN m_robot_base_link
                ELSE args.robot_base_link
        tip == IF args.end_effector_link = Null THEN m_end_effector_link
               ELSE args.end_effector_link
        robot_model == urdf_initString(robot_description)
        parsed == treeFromUrdfModel(robot_model)
        robot_tree == parsed.tree
        resolved == Tree_getChain(robot_tree, base, tip)
        robot_chain == resolved.chain
        loaded == [ret |-> "throw", base |-> base, tip |-> tip,
                   names |-> m_joint_names, handles |-> m_joint_handles,
                   fd |-> fd, fk |-> fk, pid |-> pid]
    IN  IF ~parsed.ok THEN loaded
        ELSE IF ~resolved.ok THEN loaded
        ELSE IF args.joints = NoJoints THEN loaded
        ELSE LET names == args.joints
                 handles == m_joint_handles \o KnownPrefix(names)
                 solver == ForwardDynamicsSolver_init(fd, robot_chain)
                 tmp == Tree_addChain(Tree_new("root"), robot_chain,
                                      robot_chain[1].name).tree
             IN  IF KnownPrefix(names) # names
                 THEN [loaded EXCEPT !.names = names, !.handles = handles]
                 ELSE IF ~solver.ok
                 THEN [loaded EXCEPT !.names = names, !.handles = handles]
                 ELSE [ret |-> "true", base |-> base, tip |-> tip, names |-> names,
                       handles |-> handles, fd |-> solver.fd, fk |-> tmp,
                       pid |-> SpatialPIDController_init(pid)]

\* init(hw, nh), called once by the hosting runtime on the controller it has
\* constructed; the controller is initialized when init returns true, and is
\* given up when init throws
init(args) ==
    /\ state = "Uninitialized"
    /\ LET r == init_body(args)
       IN  /\ m_robot_base_link' = r.base
           /\ m_end_effector_link' = r.tip
           /\ m_joint_names' = r.names
           /\ m_joint_handles' = r.handles
           /\ fd' = r.fd
           /\ fk' = r.fk
           /\ pid' = r.pid
           /\ state' = IF r.ret = "true" THEN "Initialized" ELSE "Aborted"
           /\ last' = [NoCall EXCEPT !.op = "init", !.init = args, !.ret = r.ret]
    /\ UNCHANGED << mode, m_cartesian_input, m_simulated_joint_motion, hw >>

\* starting with the plausible slip that the simulation is not synchronized
starting_without_sync ==
    /\ state \in {"Initialized", "Stopped"}
    /\ state' = "Running"
    /\ last' = [NoCall EXCEPT !.op = "starting"]
    /\ UNCHANGED << mode, m_robot_base_link, m_end_effector_link, m_joint_names,
                    m_joint_handles, fd, fk, pid, m_cartesian_input,
                    m_simulated_joint_motion, hw >>

\* starting with the plausible slip that it also resets the PID controller
starting_with_pid_reset ==
    /\ state \in {"Initialized", "Stopped"}
    /\ fd' = ForwardDynamicsSolver_setStartState(fd, m_joint_handles)
    /\ pid' = SpatialPIDController_init(pid)
    /\ state' = "Running"
    /\ last' = [NoCall EXCEPT !.op = "starting"]
    /\ UNCHANGED << mode, m_robot_base_link, m_end_effector_link, m_joint_names,
                    m_joint_handles, fk, m_cartesian_input,
                    m_simulated_joint_motion, hw >>

\* starting(time): copy joint state to internal simulation
starting ==
    /\ state \in {"Initialized", "Stopped"}
    /\ fd' = ForwardDynamicsSolver_setStartState(fd, m_joint_handles)
    /\ state' = "Running"
    /\ last' = [NoCall EXCEPT !.op = "starting"]
    /\ UNCHANGED << mode, m_robot_base_link, m_end_effector_link, m_joint_names,
                    m_joint_handles, fk, pid, m_cartesian_input,
                    m_simulated_joint_motion, hw >>

\* stopping(time): empty
stopping ==
    /\ state = "Running"
    /\ state' = "Stopped"
    /\ last' = [NoCall EXCEPT !.op = "stopping"]
    /\ UNCHANGED << mode, m_robot_base_link, m_end_effector_link, m_joint_names,
                    m_joint_handles, fd, fk, pid, m_cartesian_input,
                    m_simulated_joint_motion, hw >>

\* update(time, period): empty
update(period) ==
    /\ state = "Running"
    /\ last' = [NoCall EXCEPT !.op = "update", !.period = period]
    /\ UNCHANGED << state, mode, m_robot_base_link, m_end_effector_link,
                    m_joint_names, m_joint_handles, fd, fk, pid, m_cartesian_input,
                    m_simulated_joint_motion, hw >>

\* setCommand on the handles 1..n in turn, handle i getting written[i]: what
\* the hardware holds afterwards
SetCommands(h, written, n) ==
    [j \in HwJoints |->
        LET mine == {i \in 1..n : m_joint_handles[i] = j}
        IN  IF mine = {} THEN h[j]
            ELSE [h[j] EXCEPT !.command =
                     written[CHOOSE i \in mine : \A k \in mine : k <= i]]]

\* writeJointControlCmds(): handle i takes positions[i] (position interface) or
\* velocities[i] (velocity interface) of m_simulated_joint_motion.  An index
\* past the end of that vector is a read outside the vector: the value is
\* whatever lies there, or the read faults and the process ends.
writeJointControlCmds ==
    /\ state = "Running"
    /\ LET taken == IF mode = "Position" THEN m_simulated_joint_motion.positions
                    ELSE m_simulated_joint_motion.velocities
           n == Len(m_joint_handles)
           valid == IF Len(taken) < n THEN Len(taken) ELSE n
       IN  \/ \E beyond \in [(valid + 1)..n -> Garbage] :
                LET written == [i \in 1..n |->
                        IF i <= valid THEN taken[i] ELSE beyond[i]]
                IN  /\ hw' = SetCommands(hw, written, n)
                    /\ last' = [NoCall EXCEPT !.op = "writeJointControlCmds",
                                                !.written = written]
                    /\ state' = state
           \/ /\ valid < n
              /\ hw' = SetCommands(hw, taken, valid)
              /\ last' = [NoCall EXCEPT !.op = "writeJointControlCmds",
                                      !.written = SubSeq(taken, 1, valid)]
              /\ state' = "Crashed"
    /\ UNCHANGED << mode, m_robot_base_link, m_end_effector_link, m_joint_names,
                    m_joint_handles, fd, fk, pid, m_cartesian_input,
                    m_simulated_joint_motion >>

\* computeJointControlCmds with the plausible slip that the solver is given
\* the system input of the previous call
computeJointControlCmds_stale_input(error, period) ==
    /\ state = "Running"
    /\ LET controlled == SpatialPIDController_call(pid, error, period)
           solved == ForwardDynamicsSolver_getJointControlCmds(
                         fd, period, m_cartesian_input)
       IN  /\ \A j \in DOMAIN solved.positions :
                  solved.positions[j] \in -MaxPos..MaxPos
           /\ pid' = controlled.pid
           /\ m_cartesian_input' = controlled.out
           /\ fd' = solved
           /\ m_simulated_joint_motion' =
                  [positions |-> solved.positions, velocities |-> solved.velocities]
           /\ last' = [NoCall EXCEPT !.op = "computeJointControlCmds",
                                      !.error = error, !.period = period,
                                      !.rejected = controlled.rejected]
    /\ UNCHANGED << state, mode, m_robot_base_link, m_end_effector_link,
                    m_joint_names, m_joint_handles, fk, hw >>

\* computeJointControlCmds(error, period): PID controlled system input, then
\* the simulated joint motion for that input
computeJointControlCmds(error, period) ==
    /\ state = "Running"
    /\ LET controlled == SpatialPIDController_call(pid, error, period)
           solved == ForwardDynamicsSolver_getJointControlCmds(
                         fd, period, controlled.out)
       IN  /\ \A j \in DOMAIN solved.positions :
                  solved.positions[j] \in -MaxPos..MaxPos
           /\ pid' = controlled.pid
           /\ m_cartesian_input' = controlled.out
           /\ fd' = solved
           /\ m_simulated_joint_motion' =
                  [positions |-> solved.positions, velocities |-> solved.velocities]
           /\ last' = [NoCall EXCEPT !.op = "computeJointControlCmds",
                                      !.error = error, !.period = period,
                                      !.rejected = controlled.rejected]
    /\ UNCHANGED << state, mode, m_robot_base_link, m_end_effector_link,
                    m_joint_names, m_joint_handles, fk, hw >>

\* the value displayInBaseLink(wrench, from) returns when the forward
\* kinematics solver holds the tree solver and getPositions() returns positions
displayInBaseLink_value(solver, positions, wrench, from) ==
    LET wrench_kdl == [force |-> wrench.force, torque |-> wrench.torque]
        transform_kdl == JntToCart(solver, positions, FrameIdentity, from).p_out
        displayed == FrameWrench(transform_kdl, wrench_kdl)
    IN  [i \in 1..6 |-> WrenchAt(displayed, i)]

\* displayInBaseLink with the plausible slip that it reads the real joint
\* state into the simulation before it looks the transform up
displayInBaseLink_from_real(wrench, from) ==
    /\ state \in {"Initialized", "Running", "Stopped"}
    /\ fd' = ForwardDynamicsSolver_setStartState(fd, m_joint_handles)
    /\ last' = [NoCall EXCEPT !.op = "displayInBaseLink", !.wrench = wrench,
                               !.from = from,
                               !.out = displayInBaseLink_value(
                                   fk, ForwardDynamicsSolver_getPositions(fd),
                                   wrench, from)]
    /\ UNCHANGED << state, mode, m_robot_base_link, m_end_effector_link,
                    m_joint_names, m_joint_handles, fk, pid, m_cartesian_input,
                    m_simulated_joint_motion, hw >>

\* displayInBaseLink(wrench, from)
displayInBaseLink(wrench, from) ==
    /\ state \in {"Initialized", "Running", "Stopped"}
    /\ last' = [NoCall EXCEPT !.op = "displayInBaseLink", !.wrench = wrench,
                               !.from = from,
                               !.out = displayInBaseLink_value(
                                   fk, ForwardDynamicsSolver_getPositions(fd),
                                   wrench, from)]
    /\ UNCHANGED << state, mode, m_robot_base_link, m_end_effector_link,
                    m_joint_names, m_joint_handles, fd, fk, pid, m_cartesian_input,
                    m_simulated_joint_motion, hw >>

\* the robot moves: the real joints take other positions and velocities
HardwareMoves(real) ==
    /\ hw' = [j \in HwJoints |-> [position |-> real[j].position,
                                   velocity |-> real[j].velocity,
                                   command |-> hw[j].command]]
    /\ hw' # hw
    /\ UNCHANGED << state, mode, m_robot_base_link, m_end_effector_link,
                    m_joint_names, m_joint_handles, fd, fk, pid, m_cartesian_input,
                    m_simulated_joint_motion, last >>

----------------------------------------------------------------------------

\* the controller as constructed, for either hardware interface
Init ==
    /\ state = "Uninitialized"
    /\ mode \in Modes
    /\ m_robot_base_link = ""
    /\ m_end_effector_link = ""
    /\ m_joint_names = << >>
    /\ m_joint_handles = << >>
    /\ fd = FdFresh
    /\ fk = << >>
    /\ pid = PidFresh
    /\ m_cartesian_input = Zero6
    /\ m_simulated_joint_motion = [positions |-> << >>, velocities |-> << >>]
    /\ hw = [j \in HwJoints |-> [position |-> 0, velocity |-> 0, command |-> 0]]
    /\ last = NoCall

Next ==
    \/ \E args \in InitArgs : init(args)
    \/ starting
    \/ stopping
    \/ \E period \in Periods : update(period)
    \/ writeJointControlCmds
    \/ \E error \in Errors, period \in Periods : computeJointControlCmds(error, period)
    \/ \E wrench \in Wrenches, from \in Frames : displayInBaseLink(wrench, from)
    \/ \E real \in RealStates : HardwareMoves(real)

Spec == Init /\ [][Next]_vars

----------------------------------------------------------------------------
(* What the claims speak of                                                 *)

\* the step leaves the real joint state alone: it is a call on the controller
RealUnchanged ==
    \A j \in HwJoints : /\ hw'[j].position = hw[j].position
                        /\ hw'[j].velocity = hw[j].velocity

\* the step is a call of op on the controller
Called(op) == last'.op = op /\ RealUnchanged

\* the step takes the controller into Running
Started == state # "Running" /\ state' = "Running"

\* the controller has been initialized and has not faulted
Alive == state \in {"Initialized", "Running", "Stopped"}

\* the parameters with which init cannot resolve a chain or finds no joint list
Unresolvable(args) ==
    LET model == urdf_initString(
                     IF args.robot_description = Null THEN ""
                     ELSE args.robot_description)
        known == IF model.root = Null THEN {}
                 ELSE {model.root} \cup {model.links[i].name : i \in DOMAIN model.links}
        base == IF args.robot_base_link = Null THEN "" ELSE args.robot_base_link
        tip == IF args.end_effector_link = Null THEN "" ELSE args.end_effector_link
    IN  \/ model.root = Null
        \/ base \notin known
        \/ tip \notin known
        \/ args.joints = NoJoints

\* C1: when the URDF gives no tree, or the chain between the configured links
\* cannot be resolved, or the 'joints' key is missing, init throws instead of
\* returning true, leaves the solvers and the PID controller uninitialized, and
\* the controller is given up: it is never Initialized, Running or Stopped.
C1_InitFailureIsFatal ==
    (last.op = "init" /\ Unresolvable(last.init)) =>
        /\ last.ret = "throw"
        /\ ~fd.initialized
        /\ fk = << >>
        /\ ~pid.initialized
        /\ state = "Aborted"

\* C1, witness: init was called with a resolvable chain and no 'joints' key
C1_Witness ==
    /\ last.op = "init"
    /\ last.init.robot_description = "RobotA"
    /\ last.init.robot_base_link = "base_link"
    /\ last.init.end_effector_link = "tool0"
    /\ last.init.joints = NoJoints
    /\ state = "Aborted"

\* C2: every step into Running is a starting() from Initialized or Stopped and
\* leaves the simulated position and velocity of every joint that has a handle
\* equal to the real ones read through that handle; update, stopping,
\* writeJointControlCmds and displayInBaseLink leave the simulated state as it
\* is, and computeJointControlCmds advances it from its own previous value.
C2_SyncOnlyOnStart ==
    [][ /\ Started =>
            /\ state \in {"Initialized", "Stopped"}
            /\ last'.op = "starting"
            /\ \A i \in DOMAIN m_joint_handles :
                   i \in DOMAIN fd'.positions =>
                      /\ ForwardDynamicsSolver_getPositions(fd')[i]
                            = hw[m_joint_handles[i]].position
                      /\ fd'.velocities[i] = hw[m_joint_handles[i]].velocity
        /\ \A op \in {"update", "stopping", "writeJointControlCmds",
                      "displayInBaseLink"} : Called(op) => fd' = fd
        /\ Called("computeJointControlCmds") =>
              fd' = ForwardDynamicsSolver_getJointControlCmds(
                        fd, last'.period, m_cartesian_input')
      ]_vars

\* C2, witness: the controller was started again after a cycle, with the robot
\* away from where the last simulated motion had it
C2_Witness ==
    /\ state = "Running"
    /\ last.op = "starting"
    /\ m_joint_handles # << >>
    /\ m_simulated_joint_motion.positions # << >>
    /\ fd.positions[1] = hw[m_joint_handles[1]].position
    /\ fd.positions[1] # m_simulated_joint_motion.positions[1]

Taken == IF mode = "Position" THEN m_simulated_joint_motion.positions
         ELSE m_simulated_joint_motion.velocities

\* C4 as claimed: a writeJointControlCmds() that follows a
\* computeJointControlCmds() writes one command to every joint handle i, the
\* simulated position of joint i in position mode and its simulated velocity
\* in velocity mode.
C4_WritesModeValue ==
    [][ (Called("writeJointControlCmds") /\ m_simulated_joint_motion.positions # << >>) =>
          /\ state' = "Running"
          /\ Len(last'.written) = Len(m_joint_handles)
          /\ \A i \in DOMAIN m_joint_handles :
                /\ i \in DOMAIN Taken
                /\ last'.written[i] = Taken[i]
      ]_vars

\* C5 as claimed: a computeJointControlCmds with period <= 0 is rejected and
\* reported, and leaves the PID accumulators and the simulated joint state as
\* they were.
C5_InvalidPeriodRejected ==
    [][ (Called("computeJointControlCmds") /\ last'.period <= 0) =>
          /\ last'.rejected
          /\ pid' = pid
          /\ fd' = fd
      ]_vars

RECURSIVE ChainFrame(_, _, _)
\* the frame of the n-th segment of the chain relative to the base of the
\* chain, at the joint positions q
ChainFrame(chain, q, n) ==
    IF n = 0 THEN FrameIdentity
    ELSE FrameFrame(ChainFrame(chain, q, n - 1),
                    SegmentPose(chain[n],
                                IF chain[n].joint = "None" THEN 0
                                ELSE q[NrOfJoints(SubSeq(chain, 1, n))]))

\* C6 as claimed: for a wrench (f, t) given in frame F of the chain, with
\* (R, p) the transform of F relative to the base at the simulated positions,
\* displayInBaseLink returns f' = R f followed by t' = R t + p x f'.
C6_WrenchInBaseFrame ==
    (/\ last.op = "displayInBaseLink"
     /\ \E n \in DOMAIN fd.chain : fd.chain[n].name = last.from) =>
        LET n == CHOOSE k \in DOMAIN fd.chain : fd.chain[k].name = last.from
            F == ChainFrame(fd.chain, fd.positions, n)
            f == RotVec(F.M, last.wrench.force)
            t == VecAdd(RotVec(F.M, last.wrench.torque), VecCross(F.p, f))
        IN  last.out = << f[1], f[2], f[3], t[1], t[2], t[3] >>

\* C7 as claimed: init throws on an empty joint list and on a chain without
\* joints, and the controller is never Running with no joint handle or with a
\* chain without joints.
C7_EmptyIsFatal ==
    /\ (last.op = "init" /\ last.init.joints = << >>) => last.ret = "throw"
    /\ state = "Running" => m_joint_handles # << >> /\ NrOfJoints(fd.chain) > 0

\* C8: a displayInBaseLink call changes nothing of the controller or the
\* hardware, and what it returns is a function of the wrench, the frame name,
\* the tree of the forward kinematics solver and the simulated positions
\* alone: wherever the real joints are, it is the same.
C8_DisplayIsReadOnly ==
    [][ /\ Called("displayInBaseLink") =>
              /\ UNCHANGED << state, mode, m_joint_names, m_joint_handles, fd, fk,
                              pid, m_cartesian_input, m_simulated_joint_motion, hw >>
              /\ last'.out = displayInBaseLink_value(
                                 fk, ForwardDynamicsSolver_getPositions(fd),
                                 last'.wrench, last'.from)
      ]_vars

\* C8, witness: a wrench was displayed while the simulation was away from the
\* real robot, after a cycle
C8_Witness ==
    /\ last.op = "displayInBaseLink"
    /\ state = "Running"
    /\ m_joint_handles # << >>
    /\ fd.positions[1] # hw[m_joint_handles[1]].position
    /\ pid.integral # Zero6
    /\ m_simulated_joint_motion.positions # << >>

\* C9: stopping() changes no controller data and writes no joint command, and
\* a starting() leaves the PID accumulators, the Cartesian input, the last
\* computed joint motion and the joint commands as they were.
C9_StopKeepsStartKeepsPid ==
    [][ /\ Called("stopping") =>
              UNCHANGED << mode, m_joint_names, m_joint_handles, fd, fk, pid,
                           m_cartesian_input, m_simulated_joint_motion, hw >>
        /\ Started =>
              UNCHANGED << pid, m_cartesian_input, m_simulated_joint_motion, hw >>
      ]_vars

\* C9, witness: the controller was stopped and started again with PID
\* accumulators left by the earlier activation
C9_Witness ==
    /\ state = "Running"
    /\ last.op = "starting"
    /\ pid.integral # Zero6
    /\ pid.prev_error # Zero6
    /\ m_simulated_joint_motion.positions # << >>

\* C10 as claimed: once init has returned true there are as many joint handles
\* as the chain of the solver has joints, so that every handle index is an index
\* of the simulated joint motion.
C10_HandlesMatchJoints ==
    Alive => Len(m_joint_handles) = NrOfJoints(fd.chain)

====
